---- MODULE Spec2Model ----
(***************************************************************************)
(* A model of rusty-race (src/src/main.rs): a multi-port TCP echo server.  *)
(* One listener thread per port accepts one connection and spawns a        *)
(* handler thread that echoes what it reads; every thread reports to the   *)
(* main thread over one mpsc channel; a keypress thread puts the terminal  *)
(* in raw mode and asks for shutdown when 'q' is read.                     *)
(*                                                                         *)
(* Init is the state right after main has spawned the listener threads and *)
(* the keypress thread (main.rs:163-185) and stands at its receive loop.   *)
(* Every blocking call (accept, read, write, recv, join, stdin read) is    *)
(* one step; the threads interleave freely between steps.                  *)
(***************************************************************************)
EXTENDS Integers, Sequences, FiniteSets, TLC

\* ------------------------------------------------------------------ bounds

\* Number of configured ports taken from listening_ports (3 in the program).
NumPorts == 2
\* Size of the handler's read buffer (1024 in the program, scaled down).
BufSize == 2
\* Number of bytes a client sends on its connection before it closes.
StreamLen == 2
\* Number of connections with an unresolvable peer address that reach one
\* listener.
MaxUnresolved == 1
\* --------------------------------------------------------------- constants

listening_ports == 1..NumPorts

\* The c_lflag bits of the terminal that the program names. The other bits
\* are never changed by it: every write is a read value with these two bits
\* cleared or set.
ICANON == "ICANON"
ECHO == "ECHO"
LFlags == {ICANON, ECHO}

\* Option::None of extra_message.
None == "None"

\* How many bytes the client of port p sends before it closes: the client
\* of the first port sends StreamLen bytes, the client of every other port
\* connects and closes without sending.
ClientLen(p) == IF p = 1 THEN StreamLen ELSE 0

\* The bytes the client of port p sends: all distinct, so that a dropped, a
\* repeated or a misplaced byte shows.
ClientData(p) == [i \in 1..ClientLen(p) |-> 10 * p + i]

\* The address of the client of port p.
Client(p) == 100 + p

\* The zero-initialised buffer, let mut buf = [0; 1024].
ZeroBuf == [i \in 1..BufSize |-> 0]

\* The producers of events: the listener and the handler of each port, and
\* the keypress thread.
Listener_(p) == <<"listener", p>>
Handler_(p) == <<"handler", p>>
Keypress == <<"keypress", 0>>
Producers == ({"listener", "handler"} \X listening_ports) \cup {Keypress}

\* The address the keypress thread puts in its event, "0.0.0.0:0".
NoPeer == 0

\* struct IncomingData.
IncomingData(peer_addr, port, data, timestamp, extra_message) ==
    [peer_addr |-> peer_addr, port |-> port, data |-> data,
     timestamp |-> timestamp, extra_message |-> extra_message]

\* An event on its way, with what the model notes about it: who sent it
\* (from) as its how-manieth event (seq), and for the event of a read: the
\* bytes that read returned (chunk), which read of the connection it was
\* (nth) and how many writes of the handler had returned when it was sent
\* (echo_calls). The program reads none of these.
Noted(e, from, seq, chunk, nth, echo_calls) ==
    [peer_addr |-> e.peer_addr, port |-> e.port, data |-> e.data,
     timestamp |-> e.timestamp, extra_message |-> e.extra_message,
     from |-> from, seq |-> seq,
     chunk |-> chunk, nth |-> nth, echo_calls |-> echo_calls]

\* What stdout shows before main has printed an event.
Nothing ==
    Noted(IncomingData(NoPeer, 0, <<>>, 0, None), <<"nobody", 0>>, 0, <<>>, 0, 0)

\* What a handler's locals of type IncomingData hold before they are built
\* and after they are dropped.
NoEvent(p) == IncomingData(NoPeer, p, <<>>, 0, None)

VARIABLES
    stdin_is_tty,      \* whether fd 0 is a terminal (tcgetattr succeeds)
    term,              \* the ICANON and ECHO bits of the terminal's c_lflag
    aborted,           \* the process was aborted (a panic inside the panic hook)
    lpc,               \* listener thread of each port: its position
    dispatched,        \* history: handler threads the listener has spawned
    established,       \* history: "Connection established" events it has sent
    skipped,           \* history: connections the listener has dropped unserved
    hpc,               \* handler thread of each port: its position
    buf,               \* the handler's buffer
    bytes_read,        \* the handler's last read count
    bytes,             \* the event the handler built for its last read
    connection,        \* the event the handler built when it started
    rpos,              \* how many bytes of the client's data the handler has read
    echoed,            \* the bytes the socket accepted from the handler's writes
    reads,             \* how many reads of the handler returned data
    writes,            \* how many write calls of the handler have returned Ok
    chan,              \* the queue of the mpsc channel
    rx_alive,          \* the Receiver has not been dropped
    stdout,            \* the event main printed last
    first,             \* history: whose event of each port main printed first
    wpc,               \* keypress thread: its position
    existing_termios,  \* the attributes the keypress thread captured
    restores,          \* how often the keypress thread wrote them back
    mpc                \* main thread: its position

vars == <<stdin_is_tty, term, aborted, lpc, dispatched, established, skipped,
          hpc, buf, bytes_read, bytes, connection, rpos, echoed, reads, writes,
          chan, rx_alive, stdout, first, wpc, existing_termios, restores, mpc>>

termv == <<stdin_is_tty, term, aborted>>
lvars == <<lpc, dispatched, established, skipped>>
hvars == <<hpc, buf, bytes_read, bytes, connection, rpos, echoed, reads,
           writes>>
cvars == <<chan, rx_alive>>
mvars == <<mpc, stdout, first>>
wvars == <<wpc, existing_termios, restores>>

\* ------------------------------------------------------------ the process

\* The process runs until main returns or panics, or the process aborts.
Running == mpc \notin {"done", "panicked"} /\ ~aborted

\* set_panic_hook: the hook reads the attributes, sets ICANON and ECHO and
\* writes them back. It runs on the panicking thread before the default hook.
set_panic_hook(t) == t \cup {ICANON, ECHO}

\* A thread panics: the hook runs. Its from_fd(0).unwrap() panics inside
\* the hook when fd 0 is no terminal, and a panic inside the hook aborts the
\* process.
Panic ==
    /\ term' = IF stdin_is_tty THEN set_panic_hook(term) ELSE term
    /\ aborted' = (aborted \/ ~stdin_is_tty)
    /\ UNCHANGED stdin_is_tty

\* Sender::send while the Receiver lives: the event joins the queue.
SendOk(e, from, seq, chunk, nth, echo_calls) ==
    /\ rx_alive
    /\ chan' = Append(chan, Noted(e, from, seq, chunk, nth, echo_calls))
    /\ UNCHANGED rx_alive

Init ==
    /\ stdin_is_tty \in BOOLEAN
    /\ term \in (IF stdin_is_tty THEN SUBSET LFlags ELSE {{}})
    /\ aborted = FALSE
    /\ lpc = [p \in listening_ports |-> "bind"]
    /\ dispatched = [p \in listening_ports |-> 0]
    /\ established = [p \in listening_ports |-> 0]
    /\ skipped = [p \in listening_ports |-> 0]
    /\ hpc = [p \in listening_ports |-> "none"]
    /\ buf = [p \in listening_ports |-> ZeroBuf]
    /\ bytes_read = [p \in listening_ports |-> 0]
    /\ bytes = [p \in listening_ports |-> NoEvent(p)]
    /\ connection = [p \in listening_ports |-> NoEvent(p)]
    /\ rpos = [p \in listening_ports |-> 0]
    /\ echoed = [p \in listening_ports |-> <<>>]
    /\ reads = [p \in listening_ports |-> 0]
    /\ writes = [p \in listening_ports |-> 0]
    /\ chan = <<>>
    /\ rx_alive = TRUE
    /\ stdout = Nothing
    /\ first = [p \in listening_ports |-> "none"]
    /\ wpc = "set_raw"
    /\ existing_termios = {}
    /\ restores = 0
    /\ mpc = "drain"

\* ------------------------------------------------- start_tcp_server(port)

\* The accept loop without its break: it goes on accepting.
listener_keeps_accepting == "accept"

\* Where the accept loop goes after it has dispatched a connection: the
\* break of main.rs:110 leaves the loop and the function.
listener_after_dispatch == "done"

\* The accept loop left on a connection whose peer address does not
\* resolve.
listener_gives_up == "done"

\* Where the accept loop goes on such a connection: the continue of
\* main.rs:90 takes it to the next accept.
listener_after_unresolved == "accept"

\* The listener thread ends: what it counted goes with it.
ListenerEnds(p, pc) ==
    /\ lpc' = [lpc EXCEPT ![p] = pc]
    /\ skipped' = [skipped EXCEPT ![p] = 0]

\* TcpListener::bind(..).unwrap(), local_addr().unwrap() (main.rs:81-83).
start_tcp_server_bind(p) ==
    /\ Running
    /\ lpc[p] = "bind"
    /\ \/ /\ lpc' = [lpc EXCEPT ![p] = "accept"]
          /\ UNCHANGED termv
       \/ /\ lpc' = [lpc EXCEPT ![p] = "panicked"]
          /\ Panic
    /\ UNCHANGED <<dispatched, established, skipped, hvars, cvars, mvars,
                   wvars>>

\* One turn of for stream in listener.incoming(), up to the spawn
\* (main.rs:85-97):
\*   stream.unwrap() panics on a failed accept;
\*   a connection whose peer_addr() fails is dropped and the loop goes on;
\*   else thread::spawn(move || handle_client(..).unwrap()).
start_tcp_server_accept(p) ==
    /\ Running
    /\ lpc[p] = "accept"
    /\ \/ /\ ListenerEnds(p, "panicked")
          /\ Panic
          /\ UNCHANGED <<dispatched, hvars>>
       \/ /\ skipped[p] < MaxUnresolved
          /\ skipped' = [skipped EXCEPT ![p] = @ + 1]
          /\ lpc' = [lpc EXCEPT ![p] = listener_after_unresolved]
          /\ UNCHANGED <<termv, dispatched, hvars>>
       \/ /\ lpc' = [lpc EXCEPT ![p] = "send"]
          /\ dispatched' = [dispatched EXCEPT ![p] = @ + 1]
          /\ hpc' = [hpc EXCEPT ![p] = "start"]
          /\ UNCHANGED <<termv, skipped, buf, bytes_read, bytes, connection,
                         rpos, echoed, reads, writes>>
    /\ UNCHANGED <<established, cvars, mvars, wvars>>

\* tx.send("Connection established"), an error only printed, then break
\* (main.rs:99-110). The event's time is taken on the listener's own clock,
\* which no read advances.
start_tcp_server_send(p) ==
    /\ Running
    /\ lpc[p] = "send"
    /\ ListenerEnds(p, listener_after_dispatch)
    /\ IF rx_alive
         THEN /\ SendOk(IncomingData(Client(p), p, <<>>, 0, "Connection established"),
                        Listener_(p), established[p] + 1, <<>>, 0, 0)
              /\ established' = [established EXCEPT ![p] = @ + 1]
         ELSE UNCHANGED <<cvars, established>>
    /\ UNCHANGED <<termv, dispatched, hvars, mvars, wvars>>

\* ---------------------------------------------------- handle_client(port)

\* The loop with the send put before the write.
handle_client_send_first(pc) ==
    CASE pc = "read" -> "send"
      [] pc = "send" -> "write"
      [] pc = "write" -> "read"

\* The order of the three calls of one turn of the loop: read (main.rs:34),
\* write (main.rs:49), send (main.rs:51), and read again.
handle_client_next(pc) ==
    CASE pc = "read" -> "write"
      [] pc = "write" -> "send"
      [] pc = "send" -> "read"

\* &buf[..bytes_read], the slice handed to write (main.rs:49).
EchoSlice(b, n) == SubSeq(b, 1, n)

\* buf.to_vec(), the data of the event (main.rs:44).
EventData(b, n) == b

Min(a, b) == IF a < b THEN a ELSE b

\* The handler thread ends: its locals and its stream are dropped, which
\* closes the connection.
HandlerEnds(p, pc) ==
    /\ hpc' = [hpc EXCEPT ![p] = pc]
    /\ buf' = [buf EXCEPT ![p] = ZeroBuf]
    /\ bytes_read' = [bytes_read EXCEPT ![p] = 0]
    /\ bytes' = [bytes EXCEPT ![p] = NoEvent(p)]
    /\ connection' = [connection EXCEPT ![p] = NoEvent(p)]
    /\ rpos' = [rpos EXCEPT ![p] = 0]
    /\ echoed' = [echoed EXCEPT ![p] = <<>>]
    /\ reads' = [reads EXCEPT ![p] = 0]
    /\ writes' = [writes EXCEPT ![p] = 0]

\* std::time::Instant::now() in the handler of port p. Time is counted on
\* the connection's own clock, which ticks when a read returns data: it is
\* 0 when the handler starts and n when its nth read has returned.
Instant_now(p) == reads[p]

\* The function's first lines: connection is built, with the time of the
\* start and the message "Connection received"; the two
\* peer_addr().unwrap() (main.rs:20-32).
handle_client_start(p) ==
    /\ Running
    /\ hpc[p] = "start"
    /\ \/ /\ hpc' = [hpc EXCEPT ![p] = "read"]
          /\ connection' = [connection EXCEPT
                ![p] = IncomingData(Client(p), p, <<>>, Instant_now(p),
                                    "Connection received")]
          /\ UNCHANGED <<termv, buf, bytes_read, bytes, rpos, echoed, reads,
                         writes>>
       \/ /\ HandlerEnds(p, "panicked")
          /\ Panic
    /\ UNCHANGED <<lvars, cvars, mvars, wvars>>

\* One stream.read(&mut buf) (main.rs:34-61).
\*   Ok(n), n > 0: the next n bytes of the client's data overwrite the head
\*     of the buffer, and the event is built;
\*   Ok(0) or Err(ConnectionReset): break, to the lines after the loop;
\*   any other error: return Err(e), which the thread's closure unwraps
\*     (main.rs:96).
handle_client_read(p) ==
    /\ Running
    /\ hpc[p] = "read"
    /\ \/ /\ reads' = [reads EXCEPT ![p] = @ + 1]
          /\ \E n \in 1..Min(BufSize, ClientLen(p) - rpos[p]) :
               LET b == [i \in 1..BufSize |->
                           IF i <= n THEN ClientData(p)[rpos[p] + i]
                                     ELSE buf[p][i]]
               IN /\ buf' = [buf EXCEPT ![p] = b]
                  /\ bytes_read' = [bytes_read EXCEPT ![p] = n]
                  /\ rpos' = [rpos EXCEPT ![p] = @ + n]
                  /\ bytes' = [bytes EXCEPT
                        ![p] = IncomingData(Client(p), p, EventData(b, n),
                                            Instant_now(p)', None)]
          /\ hpc' = [hpc EXCEPT ![p] = handle_client_next("read")]
          /\ UNCHANGED <<termv, connection, echoed, writes, cvars>>
       \/ /\ hpc' = [hpc EXCEPT ![p] = "closed"]
          /\ UNCHANGED <<termv, buf, bytes_read, bytes, connection, rpos,
                         echoed, reads, writes, cvars>>
       \/ /\ HandlerEnds(p, "panicked")
          /\ Panic
          /\ UNCHANGED cvars
    /\ UNCHANGED <<lvars, mvars, wvars>>

\* stream.write(&buf[..bytes_read]).unwrap() (main.rs:49). Write::write
\* makes one attempt and returns how many bytes of the slice the socket
\* took, which the code does not look at; an error panics.
handle_client_write(p) ==
    /\ Running
    /\ hpc[p] = "write"
    /\ \/ /\ \E k \in 1..bytes_read[p] :
               echoed' = [echoed EXCEPT
                  ![p] = @ \o SubSeq(EchoSlice(buf[p], bytes_read[p]), 1, k)]
          /\ writes' = [writes EXCEPT ![p] = @ + 1]
          /\ hpc' = [hpc EXCEPT ![p] = handle_client_next("write")]
          /\ UNCHANGED <<termv, buf, bytes_read, bytes, connection, rpos,
                         reads>>
       \/ /\ HandlerEnds(p, "panicked")
          /\ Panic
    /\ UNCHANGED <<lvars, cvars, mvars, wvars>>

\* tx.send(bytes).unwrap() (main.rs:51).
handle_client_send(p) ==
    /\ Running
    /\ hpc[p] = "send"
    /\ IF rx_alive
         THEN /\ SendOk(bytes[p], Handler_(p), reads[p],
                        SubSeq(ClientData(p),
                               rpos[p] - bytes_read[p] + 1, rpos[p]),
                        reads[p], writes[p])
              /\ hpc' = [hpc EXCEPT ![p] = handle_client_next("send")]
              /\ UNCHANGED <<termv, buf, bytes_read, bytes, connection, rpos,
                             echoed, reads, writes>>
         ELSE /\ HandlerEnds(p, "panicked")
              /\ Panic
              /\ UNCHANGED cvars
    /\ UNCHANGED <<lvars, mvars, wvars>>

\* The handler back at its read after it has sent "Connection closed".
handler_reads_on == "read"

\* Where the handler goes after it has sent "Connection closed": Ok(())
\* returns from the function (main.rs:77).
handler_after_closed == "done"

\* After the loop: connection.extra_message = "Connection closed";
\* tx.send(connection).unwrap(); Ok(()) (main.rs:63-77).
handle_client_closed(p) ==
    /\ Running
    /\ hpc[p] = "closed"
    /\ IF rx_alive
         THEN /\ SendOk([connection[p] EXCEPT
                            !.extra_message = "Connection closed"],
                        Handler_(p), reads[p] + 1, <<>>, 0, 0)
              /\ HandlerEnds(p, handler_after_closed)
              /\ UNCHANGED termv
         ELSE /\ HandlerEnds(p, "panicked")
              /\ Panic
              /\ UNCHANGED cvars
    /\ UNCHANGED <<lvars, mvars, wvars>>

\* ------------------------------------------------------ watch_for_keypress

\* The keys the terminal can deliver: quit, help, and any other byte (also
\* the 0 that a failed read leaves in the buffer).
Keys == {"q", "?", "x"}

\* The attributes of raw mode: c_lflag &= !(ICANON | ECHO) (main.rs:117-118).
NonCanonical(t) == t \ {ICANON, ECHO}

\* The raw-mode attributes written back in place of the captured ones.
RestoredRawAttrs == NonCanonical(existing_termios)

\* The attributes written back after the key loop (main.rs:145).
RestoredAttrs == existing_termios

\* The key loop left on 'q' without the send.
watcher_quit_without_send == "restore"

\* Where the key loop goes on 'q': to the send of "Shutdown" (main.rs:128).
watcher_on_quit == "send"

\* Termios::from_fd(0).unwrap(), which panics when fd 0 is no terminal, and
\* tcsetattr to the read attributes with ICANON and ECHO cleared
\* (main.rs:116-120).
watch_for_keypress_set_raw ==
    /\ Running
    /\ wpc = "set_raw"
    /\ IF stdin_is_tty
         THEN /\ existing_termios' = term
              /\ term' = NonCanonical(term)
              /\ wpc' = "read_key"
              /\ UNCHANGED <<stdin_is_tty, aborted>>
         ELSE /\ wpc' = "panicked"
              /\ Panic
              /\ UNCHANGED existing_termios
    /\ UNCHANGED <<lvars, hvars, cvars, mvars, restores>>

\* One turn of the key loop: a key is read; 'q' leaves for the send, '?'
\* prints the help line, any other key is ignored (main.rs:122-142).
watch_for_keypress_read_key ==
    /\ Running
    /\ wpc = "read_key"
    /\ \E key \in Keys : wpc' = IF key = "q" THEN watcher_on_quit ELSE "read_key"
    /\ UNCHANGED <<termv, lvars, hvars, cvars, mvars, existing_termios,
                   restores>>

\* tx.send("Shutdown").unwrap(); break (main.rs:129-137). The event's time
\* is taken on the keypress thread's own clock, which no read advances.
watch_for_keypress_send ==
    /\ Running
    /\ wpc = "send"
    /\ IF rx_alive
         THEN /\ SendOk(IncomingData(NoPeer, 0, <<>>, 0, "Shutdown"), Keypress,
                        1, <<>>, 0, 0)
              /\ wpc' = "restore"
              /\ UNCHANGED termv
         ELSE /\ wpc' = "panicked"
              /\ Panic
              /\ UNCHANGED cvars
    /\ UNCHANGED <<lvars, hvars, mvars, existing_termios, restores>>

\* tcsetattr(0, TCSANOW, &existing_termios) and the return (main.rs:145-146).
watch_for_keypress_restore ==
    /\ Running
    /\ wpc = "restore"
    /\ term' = RestoredAttrs
    /\ restores' = restores + 1
    /\ wpc' = "done"
    /\ UNCHANGED <<stdin_is_tty, aborted, lvars, hvars, cvars, mvars,
                   existing_termios>>

\* -------------------------------------------------------------------- main

\* The comparison made with a label no producer sends.
IsShutdownMisspelt(received) == received.extra_message = "shutdown"

\* The loop left on every event that carries a message.
IsAnyMessage(received) == received.extra_message # None

\* message == "Shutdown" (main.rs:190).
IsShutdown(received) == received.extra_message = "Shutdown"

\* A join that does not wait.
JoinWithoutWaiting == TRUE

\* What join waits for: the keypress thread has ended (main.rs:209).
JoinReady == wpc \in {"done", "panicked"}

\* One turn of for received in rx: the head of the queue is received and
\* printed; on "Shutdown" the loop breaks, which drops the Receiver and what
\* is still queued (main.rs:187-207).
main_recv ==
    /\ Running
    /\ mpc = "drain"
    /\ chan # <<>>
    /\ LET received == Head(chan)
       IN /\ stdout' = received
          /\ first' = IF received.port \in listening_ports
                          /\ first[received.port] = "none"
                        THEN [first EXCEPT ![received.port] = received.from[1]]
                        ELSE first
          /\ IF IsShutdown(received)
               THEN /\ mpc' = "join"
                    /\ rx_alive' = FALSE
                    /\ chan' = <<>>
               ELSE /\ chan' = Tail(chan)
                    /\ UNCHANGED <<mpc, rx_alive>>
    /\ UNCHANGED <<termv, lvars, hvars, wvars>>

\* keypress_builder.join().unwrap(), which panics when the keypress thread
\* has panicked, and once it has returned: println!("Goodbye, world!");
\* Ok(()) (main.rs:209-213).
main_join ==
    /\ Running
    /\ mpc = "join"
    /\ JoinReady
    /\ IF wpc = "panicked"
         THEN /\ mpc' = "panicked"
              /\ Panic
         ELSE /\ mpc' = "done"
              /\ UNCHANGED termv
    /\ UNCHANGED <<lvars, hvars, cvars, stdout, first, wvars>>

\* ------------------------------------------------------- the specification

Listener(p) ==
    \/ start_tcp_server_bind(p)
    \/ start_tcp_server_accept(p)
    \/ start_tcp_server_send(p)

Handler(p) ==
    \/ handle_client_start(p)
    \/ handle_client_read(p)
    \/ handle_client_write(p)
    \/ handle_client_send(p)
    \/ handle_client_closed(p)

Watcher ==
    \/ watch_for_keypress_set_raw
    \/ watch_for_keypress_read_key
    \/ watch_for_keypress_send
    \/ watch_for_keypress_restore

Main ==
    \/ main_recv
    \/ main_join

Next ==
    \/ \E p \in listening_ports : Listener(p)
    \/ \E p \in listening_ports : Handler(p)
    \/ Watcher
    \/ Main

Spec == Init /\ [][Next]_vars

\* The threads are operating-system threads: one that can take its next
\* step does take it. That holds for main and for the keypress thread once
\* it has read 'q'; which key is read, and what the sockets deliver, is up
\* to the environment.
FairSpec ==
    /\ Spec
    /\ WF_vars(main_recv)
    /\ WF_vars(main_join)
    /\ WF_vars(watch_for_keypress_send)
    /\ WF_vars(watch_for_keypress_restore)

\* -------------------------------------------------------------- the claims

\* The events in the queue, and the events the main thread can have seen.
Queued == {chan[i] : i \in DOMAIN chan}
Seen == Queued \cup {stdout}

IsData(e) == e.from[1] = "handler" /\ e.extra_message = None

\* C1: every event of a read that is queued or has been printed was sent
\* when the write call for the chunk of that read had already returned: it
\* is the event of the nth read, and at least n writes had returned. A
\* handler about to send has made as many writes as reads.
C1_EchoBeforeEvent ==
    /\ \A e \in Seen : IsData(e) => e.nth >= 1 /\ e.nth <= e.echo_calls
    /\ \A p \in listening_ports : hpc[p] = "send" => writes[p] = reads[p]

\* main has printed the event of a read, which was sent after its write.
C1_Witness == IsData(stdout) /\ stdout.nth = 1 /\ stdout.echo_calls = 1

IsPrefix(s, t) == Len(s) <= Len(t) /\ SubSeq(t, 1, Len(s)) = s

\* The bytes the handler of port p has read from its client.
ReadSoFar(p) == SubSeq(ClientData(p), 1, rpos[p])

\* C2: on every connection the bytes written back are a prefix of the bytes
\* read, and once the write for a read has returned the two are equal.
C2_EchoIsWhatWasRead ==
    \A p \in listening_ports :
        /\ IsPrefix(echoed[p], ReadSoFar(p))
        /\ hpc[p] \in {"send", "read"} => echoed[p] = ReadSoFar(p)

\* C3: the data of every event of a read is exactly the bytes that read
\* returned.
C3_PayloadIsBytesRead ==
    \A e \in Seen : IsData(e) => e.data = e.chunk

\* C4: the first event of a connection that main receives is the listener's
\* "Connection established", never an event of the handler.
C4_EstablishedFirst ==
    \A p \in listening_ports : first[p] # "handler"

\* C5: on every port the listener spawns at most one handler and sends at
\* most one "Connection established", and once it has dispatched it is no
\* longer in its accept loop.
C5_OneDispatchPerPort ==
    \A p \in listening_ports :
        /\ dispatched[p] <= 1
        /\ established[p] <= dispatched[p]
        /\ dispatched[p] = 1 => lpc[p] \in {"send", "done"}
        /\ lpc[p] = "done" => dispatched[p] = 1

\* A listener has dispatched its connection, sent its event and returned.
C5_Witness ==
    \E p \in listening_ports :
        lpc[p] = "done" /\ dispatched[p] = 1 /\ established[p] = 1

\* "Shutdown" is in the queue.
ShutdownQueued == \E e \in Queued : e.extra_message = "Shutdown"

\* The ith event of the queue is no longer in the queue after the step.
Gone(i) == \A j \in DOMAIN chan' : chan'[j] # chan[i]

\* C6: once "Shutdown" is in the queue, main leaves its receive loop,
\* whatever is queued before or behind it; an event queued before it leaves
\* the queue only by being printed; the loop is left only on printing a
\* "Shutdown" that is the head of the queue; nothing is printed afterwards.
C6_ShutdownEndsDrain ==
    /\ ShutdownQueued ~> (mpc # "drain")
    /\ [][\A i \in DOMAIN chan :
            (\E j \in DOMAIN chan : j > i /\ chan[j].extra_message = "Shutdown")
            /\ Gone(i) => stdout' = chan[i]]_vars
    /\ [][mpc = "drain" /\ mpc' # "drain"
            => /\ chan # <<>>
               /\ Head(chan).extra_message = "Shutdown"
               /\ stdout' = Head(chan)]_vars
    /\ [][mpc # "drain" => stdout' = stdout]_vars

\* "Shutdown" is queued behind one event and before another.
C6_Witness ==
    \E i \in DOMAIN chan :
        1 < i /\ i < Len(chan) /\ chan[i].extra_message = "Shutdown"

\* The keypress thread has read 'q'.
QuitKeyRead == wpc \in {"send", "restore", "done"}

\* C7: once 'q' has been read main returns normally, and main returns
\* normally only if 'q' has been read.
C7_QuitTerminatesMain ==
    /\ QuitKeyRead ~> (mpc = "done")
    /\ [](mpc = "done" => QuitKeyRead)

\* main has returned while a listener was in accept and a handler in read.
C7_Witness ==
    /\ mpc = "done"
    /\ \E p \in listening_ports : lpc[p] = "accept"
    /\ \E p \in listening_ports : hpc[p] = "read"

\* C8: when main has printed its final message the keypress thread has
\* returned, having written the captured attributes back.
C8_GoodbyeAfterWatcher ==
    mpc = "done" => wpc = "done" /\ restores = 1

\* main has printed its final message.
C8_Witness == mpc = "done" /\ wpc = "done" /\ restores = 1

\* main prints an event only when it is the oldest one in the queue.
RendersInArrivalOrder ==
    [][stdout' # stdout => mpc = "drain" /\ chan # <<>> /\ stdout' = Head(chan)]_vars

\* The queue changes only by one event joining its tail or by main taking
\* its head (and, with it, all of it).
QueueIsFifo ==
    [][chan' # chan =>
         \/ Len(chan') = Len(chan) + 1 /\ SubSeq(chan', 1, Len(chan)) = chan
         \/ chan # <<>> /\ stdout' = Head(chan) /\ chan' \in {Tail(chan), <<>>}]_vars

\* The events of one producer are queued, and so printed, in the order it
\* sent them.
PerProducerOrder ==
    /\ \A i, j \in DOMAIN chan :
          i < j /\ chan[i].from = chan[j].from => chan[i].seq < chan[j].seq
    /\ \A j \in DOMAIN chan :
          chan[j].from = stdout.from => stdout.seq < chan[j].seq

\* C9, as claimed: events are printed in arrival order and per producer in
\* send order, and every event the channel accepted is printed: none leaves
\* the queue without being printed.
C9_EveryEventRendered ==
    /\ RendersInArrivalOrder
    /\ QueueIsFifo
    /\ []PerProducerOrder
    /\ [][\A i \in DOMAIN chan : Gone(i) => stdout' = chan[i]]_vars

\* C9, amended: events are printed in arrival order and per producer in
\* send order; an event leaves the queue either by being printed or,
\* unprinted, when it is queued behind the "Shutdown" on which main leaves
\* its loop.
C9_RenderedUpToShutdown ==
    /\ RendersInArrivalOrder
    /\ QueueIsFifo
    /\ []PerProducerOrder
    /\ [][\A i \in DOMAIN chan :
            Gone(i) => \/ stdout' = chan[i]
                       \/ /\ i > 1
                          /\ Head(chan).extra_message = "Shutdown"
                          /\ stdout' = Head(chan)]_vars

\* main has printed the second event of a handler while another event is
\* queued.
C9_Witness ==
    /\ stdout.from[1] = "handler"
    /\ stdout.seq = 2
    /\ chan # <<>>

\* C10: the step on which watch_for_keypress returns is the one write of
\* the captured attributes, made after the key loop: it leaves the terminal
\* with exactly those attributes, and no other step of the function writes
\* them back.
C10_RestoredOnReturn ==
    /\ [][wpc # "done" /\ wpc' = "done"
            => /\ wpc = "restore"
               /\ term' = existing_termios
               /\ existing_termios' = existing_termios
               /\ restores' = 1]_vars
    /\ [](restores = IF wpc = "done" THEN 1 ELSE 0)

\* The function has returned and the terminal has the captured attributes,
\* which had ECHO set and ICANON cleared.
C10_Witness ==
    /\ wpc = "done"
    /\ restores = 1
    /\ existing_termios = {ECHO}
    /\ term = existing_termios

\* The keypress thread holds the terminal in raw mode: it has set it and has
\* not yet written the captured attributes back.
RawModeHeld == wpc \in {"read_key", "send", "restore"}

\* A thread panics in this step.
PanicStep ==
    \/ \E p \in listening_ports : lpc[p] # "panicked" /\ lpc'[p] = "panicked"
    \/ \E p \in listening_ports : hpc[p] # "panicked" /\ hpc'[p] = "panicked"
    \/ wpc # "panicked" /\ wpc' = "panicked"
    \/ mpc # "panicked" /\ mpc' = "panicked"

\* C11: a panic of any thread while the keypress thread holds the terminal
\* in raw mode leaves the terminal with the attributes captured before raw
\* mode was set, whatever they were.
C11_PanicRestoresCaptured ==
    [][RawModeHeld /\ PanicStep => term' = existing_termios]_vars

\* The listener of port p fails in this step: its bind or its accept.
ListenerFails(p) == lpc[p] \in {"bind", "accept"} /\ lpc'[p] = "panicked"

\* The handler of port p fails in this step: a read error that is no reset,
\* or a write error.
HandlerFails(p) == hpc[p] \in {"read", "write"} /\ hpc'[p] = "panicked"

\* The step leaves the listener of port q as it was.
ListenerUntouched(q) ==
    /\ lpc'[q] = lpc[q]
    /\ skipped'[q] = skipped[q]
    /\ dispatched'[q] = dispatched[q]
    /\ established'[q] = established[q]

\* The step leaves the handler of port q and its connection as they were.
HandlerUntouched(q) ==
    /\ hpc'[q] = hpc[q]
    /\ buf'[q] = buf[q]
    /\ bytes_read'[q] = bytes_read[q]
    /\ bytes'[q] = bytes[q]
    /\ connection'[q] = connection[q]
    /\ rpos'[q] = rpos[q]
    /\ echoed'[q] = echoed[q]
    /\ reads'[q] = reads[q]
    /\ writes'[q] = writes[q]

\* C13: the failure of one listener or handler ends only that thread: every
\* other listener and handler is as it was, the channel is as it was, and
\* the process still runs, so that the others can go on.
C13_FailureIsLocal ==
    [][\A p \in listening_ports :
         /\ ListenerFails(p) =>
               /\ \A q \in listening_ports \ {p} : ListenerUntouched(q)
               /\ \A q \in listening_ports : HandlerUntouched(q)
               /\ UNCHANGED cvars
               /\ ~aborted'
         /\ HandlerFails(p) =>
               /\ \A q \in listening_ports : ListenerUntouched(q)
               /\ \A q \in listening_ports \ {p} : HandlerUntouched(q)
               /\ UNCHANGED cvars
               /\ ~aborted']_vars

\* C14: a send that fails because the Receiver is gone does not end the
\* thread that made it: the listener goes on to its break and returns, the
\* handler goes on to its next read.
C14_SendFailureGoesOn ==
    [][\A p \in listening_ports :
         /\ lpc[p] = "send" /\ ~rx_alive /\ lpc'[p] # lpc[p]
               => lpc'[p] = "done"
         /\ hpc[p] = "send" /\ ~rx_alive /\ hpc'[p] # hpc[p]
               => hpc'[p] = "read"]_vars

\* The handler of port p puts an event on the channel in this step.
HandlerSends(p) ==
    /\ Len(chan') = Len(chan) + 1
    /\ chan'[Len(chan')].from = Handler_(p)

\* It is the "Connection closed" of its peer and port.
HandlerSendsClosed(p) ==
    /\ HandlerSends(p)
    /\ chan'[Len(chan')].extra_message = "Connection closed"
    /\ chan'[Len(chan')].peer_addr = Client(p)
    /\ chan'[Len(chan')].port = p

\* C15: a handler that has left its loop on a read of zero bytes or on a
\* reset returns without an error, having sent "Connection closed" for its
\* peer and port; that event is sent on no other step and is the handler's
\* last; a handler that ends on another read error or on a write error
\* sends nothing.
C15_ClosedOnCleanExitOnly ==
    [][\A p \in listening_ports :
         /\ hpc[p] = "closed" /\ hpc'[p] # "closed"
               => hpc'[p] = "done" /\ HandlerSendsClosed(p)
         /\ HandlerSendsClosed(p) => hpc[p] = "closed"
         /\ hpc[p] \in {"done", "panicked"} => ~HandlerSends(p)
         /\ HandlerFails(p) => UNCHANGED chan]_vars

\* The listener of port p drops a connection in this step.
Skips(p) == skipped'[p] = skipped[p] + 1

\* C16: on a connection whose peer address does not resolve the listener
\* spawns no handler and sends no event and is at its accept again; however
\* many it has dropped, a listener in its accept loop has dispatched
\* nothing yet, and it never dispatches more than once.
C16_UnresolvedPeerSkipped ==
    /\ [][\A p \in listening_ports :
            Skips(p) => /\ lpc[p] = "accept" /\ lpc'[p] = "accept"
                        /\ UNCHANGED <<dispatched, established, hvars, cvars>>]_vars
    /\ [](\A p \in listening_ports :
            /\ lpc[p] = "accept" => dispatched[p] = 0 /\ hpc[p] = "none"
            /\ dispatched[p] <= 1)

\* A listener has dropped a connection and then dispatched the next one.
C16_Witness ==
    \E p \in listening_ports :
        skipped[p] = 1 /\ dispatched[p] = 1 /\ lpc[p] = "send" /\ hpc[p] = "read"

IsClosed(e) == e.from[1] = "handler" /\ e.extra_message = "Connection closed"

\* C17: the time an event carries is the time of what caused it: the event
\* of the nth read carries the time of that read, and the "Connection
\* closed" of a connection carries a time not earlier than that of any
\* event of a read of the same connection.
C17_TimestampOfTrigger ==
    /\ \A d \in Seen : IsData(d) => d.timestamp = d.nth
    /\ \A e, d \in Seen :
          IsClosed(e) /\ IsData(d) /\ d.from = e.from
              => e.timestamp >= d.timestamp

\* C18: while the keypress thread is in its key loop the terminal is in raw
\* mode, ICANON and ECHO cleared, whatever the other threads do.
C18_RawWhileReadingKeys ==
    wpc \in {"read_key", "send"} => term \cap {ICANON, ECHO} = {}

\* C19: once the keypress thread has written the captured attributes back
\* and returned, the terminal keeps them, whatever the other threads do.
C19_RestoredStaysRestored ==
    wpc = "done" => term = existing_termios

\* The handler of port p puts the event of a read on the channel in this
\* step: the event of its latest read, which has been written back, and its
\* so-manieth event.
HandlerSendsData(p) ==
    /\ HandlerSends(p)
    /\ chan'[Len(chan')].extra_message = None
    /\ hpc[p] = "send"
    /\ chan'[Len(chan')].nth = reads[p]
    /\ chan'[Len(chan')].echo_calls = reads[p]
    /\ chan'[Len(chan')].seq = reads[p]

\* What the handler of port p sends is the event of a read or its one
\* "Connection closed", after which it has returned for good.
DataThenClosed(p) ==
    /\ HandlerSends(p) => HandlerSendsData(p) \/ HandlerSendsClosed(p)
    /\ HandlerSendsClosed(p) => hpc[p] = "closed" /\ hpc'[p] = "done"
    /\ hpc[p] = "done" => hpc'[p] = "done" /\ ~HandlerSends(p)

\* Of one handler nothing is queued behind its "Connection closed", and
\* nothing is queued once main has printed it.
NothingAfterClosed ==
    /\ \A i, j \in DOMAIN chan :
          i < j /\ chan[i].from = chan[j].from => ~IsClosed(chan[i])
    /\ \A j \in DOMAIN chan : IsClosed(stdout) => chan[j].from # stdout.from

\* C20, as claimed: a handler sends events of reads and then at most one
\* "Connection closed", none behind it, and every read that was written
\* back has its event sent.
C20_EveryEchoedReadSent ==
    /\ [][\A p \in listening_ports :
            /\ DataThenClosed(p)
            /\ hpc[p] = "send" /\ hpc'[p] # "send"
                  => HandlerSendsData(p) /\ hpc'[p] = "read"]_vars
    /\ []NothingAfterClosed

\* C20, amended: a handler sends events of reads and then at most one
\* "Connection closed", none behind it; every event of a read it sends is
\* that of one read that was written back; such a read has its event sent
\* when the Receiver is alive, and when it is gone the send puts nothing on
\* the channel and ends the handler.
C20_EchoedReadSentWhileReceiving ==
    /\ [][\A p \in listening_ports :
            /\ DataThenClosed(p)
            /\ hpc[p] = "send" /\ hpc'[p] # "send" /\ rx_alive
                  => HandlerSendsData(p) /\ hpc'[p] = "read"
            /\ hpc[p] = "send" /\ hpc'[p] # "send" /\ ~rx_alive
                  => chan' = chan /\ hpc'[p] = "panicked"]_vars
    /\ []NothingAfterClosed

\* A handler has sent the events of two reads and its "Connection closed"
\* and has returned.
C20_Witness ==
    \E i \in DOMAIN chan :
        /\ IsClosed(chan[i])
        /\ chan[i].seq = 3
        /\ hpc[chan[i].port] = "done"

====
